---------------------------- MODULE Spec2Model ----------------------------
(***************************************************************************)
(* SimCLR trainer (trainers/simclr.py) on top of the generic training loop *)
(* (trainers/generic.py).                                                  *)
(*                                                                         *)
(* Spec       : one SimCLRTrainer object: construction, fit, save.         *)
(* SpecEval   : one SimCLRTrainer object: construction, evaluate.          *)
(* SpecStep   : the logits computation of one training step.               *)
(* SpecConfig : GenericExtractor._parse_configs on arbitrary kwargs.       *)
(*                                                                         *)
(* Python values are tokens: augment is one of "True", "False", "None",    *)
(* "Dict" (a non-empty parameter dict) and "EmptyDict".  Temperatures are  *)
(* in tenths (10 is the default temperature=1.).                           *)
(***************************************************************************)
EXTENDS Integers, Sequences, FiniteSets, TLC

VARIABLES
    trainer,          \* "none" | "ok" | "raised": SimCLRTrainer.__init__ outcome
    raisedAt,         \* the assertion that ended __init__, or "none"
    augment,          \* __init__ argument
    temperature,      \* __init__ argument, in tenths
    batch_size,       \* __init__ argument
    train_data,       \* self.train_data: the source images <<1, ..., M>>
    ds,               \* self._ds: the sequence of batches one pass yields
    has_ds,           \* self._ds was assigned
    has_training_step,\* self._training_step was assigned
    config,           \* self.config        (model bucket)
    input_config,     \* self.input_config  (input bucket)
    augment_config,   \* self.augment_config
    step,             \* self.step
    fitpc,            \* "idle" | "epoch" | "saving" | "done" | "raised"
    epochs, save, evaluate,   \* arguments of the current fit call
    e,                \* epoch index of the for loop in fit
    b,                \* batches of self._ds consumed in this epoch
    m,                \* position in self._models during save
    batch,            \* the (x, y) batch the training step last received
    labels,           \* index + y computed by the training step
    seen,             \* source images consumed in this epoch
    calls,            \* the calls fit has made so far, in order
    step0,            \* self.step when the current fit call started
    fits,             \* fit calls so far
    storage,          \* durable storage: artifact name -> self.step at its last write, -1 if absent
    has_hparams_config, \* hasattr(self, "_hparams_config")
    registrations,    \* hp.hparams_config / hp.hparams registrations so far
    evals,            \* evaluate() calls so far
    cpc,              \* SpecConfig: "call" before _parse_configs runs, "returned" after
    kwargs,           \* SpecConfig: the kwargs of the _parse_configs call
    tpc, tau, embeddings, embeds_norm, sim, logits   \* SpecStep

trainerVars == <<trainer, raisedAt, augment, temperature, batch_size, train_data,
                 ds, has_ds, has_training_step>>
configVars  == <<config, input_config, augment_config>>
fitVars     == <<fitpc, epochs, save, evaluate, e, b, m, batch, labels, seen,
                 calls, step0, fits>>
evalVars    == <<has_hparams_config, registrations, evals>>
stepVars    == <<tpc, tau, embeddings, embeds_norm, sim, logits>>
parseVars   == <<cpc, kwargs>>
vars == <<trainerVars, configVars, step, fitVars, storage, evalVars, parseVars, stepVars>>

(***************************************************************************)
(* Bounds                                                                  *)
(***************************************************************************)
MaxImages == 4
MaxBatch  == 2
MaxEpochs == 2
MaxFits   == 2
MaxEvals  == 2
MaxKwargs == 3

(***************************************************************************)
(* Program constants                                                       *)
(***************************************************************************)
BIG_NUMBER == 1000

INPUT_PARAMS == {"imshape", "num_channels", "norm", "batch_size",
                 "shuffle", "num_parallel_calls", "sobel", "single_channel"}

AugmentValues == {"True", "False", "None", "Dict", "EmptyDict"}
\* Python truthiness of an augment value
Truthy(a) == a \in {"True", "Dict"}

\* temperatures in tenths: -1.0, 0, 1.0 (the default), 100.0
Temperatures == {-10, 0, 10, 1000}

(***************************************************************************)
(* _build_simclr_dataset                                                   *)
(***************************************************************************)
RECURSIVE Flatten(_)
Flatten(ss) == IF ss = <<>> THEN <<>> ELSE Head(ss) \o Flatten(Tail(ss))

\* _augment_and_stack: tf.stack([_aug(x), _aug(x)]), [1, -1].  The two calls of
\* _aug are two random draws: views 1 and 2 of image x.
augment_and_stack(x) ==
    [x |-> << [img |-> x, view |-> 1], [img |-> x, view |-> 2] >>,
     y |-> <<1, -1>>]

\* ds.map(_augment_and_stack)
map_augment(data) == [i \in 1..Len(data) |-> augment_and_stack(data[i])]

\* ds.unbatch(): every element is split along its first axis, x and y together
unbatch(mapped) ==
    Flatten([i \in 1..Len(mapped) |->
               [j \in 1..Len(mapped[i].x) |->
                   [img  |-> mapped[i].x[j].img,
                    view |-> mapped[i].x[j].view,
                    y    |-> mapped[i].y[j]]]])

\* faulty variant: ds.batch(n), the trailing partial batch kept
batch_keep_remainder(flat, n) ==
    [k \in 1..((Len(flat) + n - 1) \div n) |->
        SubSeq(flat, (k - 1) * n + 1, IF k * n <= Len(flat) THEN k * n ELSE Len(flat))]

\* ds.batch(n, drop_remainder=True)
batch_drop_remainder(flat, n) ==
    [k \in 1..(Len(flat) \div n) |-> SubSeq(flat, (k - 1) * n + 1, k * n)]

\* faulty variant: the identity test of line 135 in place of the truth test
assert_augment_is_not_False(a) == a # "False"

\* simclr.py:21  assert augment
assert_augment(a) == Truthy(a)

\* simclr.py:135  assert augment is not False
assert_not_False(a) == a # "False"

\* faulty variant: ds.batch(batch_size) in place of ds.batch(2*batch_size)
pipeline_batch_size_views(data, n) ==
    batch_drop_remainder(unbatch(map_augment(data)), n)

\* the pipeline of _build_simclr_dataset once the assertion passed
pipeline(data, n) ==
    batch_drop_remainder(unbatch(map_augment(data)), 2 * n)

\* the outcome of a call: the AssertionError of line 21, or the dataset returned
build_simclr_dataset(data, n, a) ==
    IF assert_augment(a)
    THEN [raised |-> FALSE, ds |-> pipeline(data, n)]
    ELSE [raised |-> TRUE,  ds |-> <<>>]

(***************************************************************************)
(* _parse_configs                                                          *)
(***************************************************************************)
\* faulty variant: no branch of its own for "augment"
bucket_no_augment(k) == IF k \in INPUT_PARAMS THEN "input" ELSE "model"

\* generic.py:139-144: the branch a key takes
bucket(k) ==
    IF k = "augment" THEN "augment"
    ELSE IF k \in INPUT_PARAMS THEN "input" ELSE "model"

\* d[k] = v on a Python dict
DictSet(d, k, v) == [x \in (DOMAIN d) \cup {k} |-> IF x = k THEN v ELSE d[x]]
EmptyDict == [x \in {} |-> 0]

\* the loop over kwargs, from the state [config, input, augment] set before it
RECURSIVE parse_loop(_, _)
parse_loop(kw, acc) ==
    IF kw = <<>> THEN acc
    ELSE LET k == Head(kw)[1]
             v == Head(kw)[2]
             bk == bucket(k)
         IN parse_loop(Tail(kw),
               IF bk = "augment" THEN [acc EXCEPT !.augment = v]
               ELSE IF bk = "input" THEN [acc EXCEPT !.input = DictSet(acc.input, k, v)]
               ELSE [acc EXCEPT !.config = DictSet(acc.config, k, v)])

parse_configs(kw) ==
    parse_loop(kw, [config |-> EmptyDict, input |-> EmptyDict, augment |-> "False"])

\* the keyword arguments SimCLRTrainer.__init__ hands to _parse_configs; the
\* arguments the model does not vary carry their defaults (lr in hundredths,
\* imshape by its side, None and False and "" as 0)
simclr_kwargs(a, t, n) ==
    << <<"augment", a>>, <<"temperature", t>>, <<"num_hidden", 128>>,
       <<"output_dim", 64>>, <<"lr", 1>>, <<"lr_decay", 10000>>,
       <<"imshape", 32>>, <<"num_channels", 3>>, <<"norm", 255>>,
       <<"batch_size", n>>, <<"num_parallel_calls", 0>>,
       <<"single_channel", 0>>, <<"notes", 0>> >>

(***************************************************************************)
(* Initial state: no trainer constructed yet                               *)
(***************************************************************************)
ModelOrder == <<"fcn", "full">>      \* self._models, in insertion order
Models == {"fcn", "full"}

TrainerInit ==
    /\ trainer = "none" /\ raisedAt = "none"
    /\ augment = "True" /\ temperature = 10 /\ batch_size = 1
    /\ train_data = <<>> /\ ds = <<>>
    /\ has_ds = FALSE /\ has_training_step = FALSE
    /\ step = 0
    /\ fitpc = "idle" /\ epochs = 0 /\ save = FALSE /\ evaluate = FALSE
    /\ e = 0 /\ b = 0 /\ m = 1
    /\ batch = <<>> /\ labels = <<>> /\ seen = {}
    /\ calls = <<>> /\ step0 = 0 /\ fits = 0
    /\ storage = [n \in Models |-> -1]
    /\ has_hparams_config = FALSE /\ registrations = 0 /\ evals = 0

ConfigInit ==
    /\ config = EmptyDict /\ input_config = EmptyDict /\ augment_config = "False"

StepInit ==
    /\ tpc = "off" /\ tau = 10
    /\ embeddings = <<>> /\ embeds_norm = <<>> /\ sim = <<>> /\ logits = <<>>

Init == TrainerInit /\ ConfigInit /\ StepInit /\ cpc = "off" /\ kwargs = <<>>

(***************************************************************************)
(* SimCLRTrainer.__init__                                                  *)
(***************************************************************************)
Construct(a, t, n, M) ==
    /\ trainer = "none"
    /\ augment' = a /\ temperature' = t /\ batch_size' = n
    /\ IF ~assert_not_False(a)
       THEN \* line 135 raises before anything is assigned
            /\ trainer' = "raised" /\ raisedAt' = "init"
            /\ UNCHANGED <<train_data, ds, has_ds, has_training_step, configVars, step>>
       ELSE LET data == [i \in 1..M |-> i]
                built == build_simclr_dataset(data, n, a)
            IN /\ train_data' = data
               /\ IF built.raised
                  THEN \* line 21 raises inside line 162
                       /\ trainer' = "raised" /\ raisedAt' = "dataset"
                       /\ UNCHANGED <<ds, has_ds, has_training_step, configVars, step>>
                  ELSE LET parsed == parse_configs(simclr_kwargs(a, t, n))
                       IN /\ trainer' = "ok" /\ raisedAt' = "none"
                          /\ ds' = built.ds /\ has_ds' = TRUE
                          /\ has_training_step' = TRUE
                          /\ step' = 0
                          /\ config' = parsed.config
                          /\ input_config' = parsed.input
                          /\ augment_config' = parsed.augment
    /\ UNCHANGED <<fitVars, storage, evalVars, parseVars, stepVars>>

(***************************************************************************)
(* GenericExtractor.fit, SimCLRTrainer._run_training_epoch, save           *)
(***************************************************************************)
Fit(E, s, ev) ==
    /\ trainer = "ok"
    /\ fitpc \in {"idle", "done", "raised"}
    /\ fits < MaxFits
    /\ fits' = fits + 1
    /\ epochs' = E /\ save' = s /\ evaluate' = ev
    /\ e' = 0 /\ b' = 0 /\ m' = 1 /\ seen' = {}
    /\ calls' = <<>> /\ step0' = step
    /\ fitpc' = IF E > 0 THEN "epoch" ELSE "done"
    /\ UNCHANGED <<trainerVars, configVars, step, batch, labels, storage,
                   evalVars, parseVars, stepVars>>

\* simclr.py:66-70  index = tf.range(0, n); labels = index + y
training_step_labels(y) == [i \in 1..Len(y) |-> (i - 1) + y[i]]

\* faulty variant: self.step = 1 in place of self.step += 1
StepAfterBatch_assign(s) == 1

\* simclr.py:210  self.step += 1
StepAfterBatch(s) == s + 1

\* one iteration of "for x, y in self._ds"
TrainStep ==
    /\ fitpc = "epoch"
    /\ b < Len(ds)
    /\ batch' = ds[b + 1]
    /\ labels' = training_step_labels([i \in 1..Len(ds[b + 1]) |-> ds[b + 1][i].y])
    /\ seen' = seen \cup {ds[b + 1][i].img : i \in 1..Len(ds[b + 1])}
    /\ calls' = Append(calls, "step")
    /\ step' = StepAfterBatch(step)
    /\ b' = b + 1
    /\ UNCHANGED <<trainerVars, configVars, fitpc, epochs, save, evaluate, e, m,
                   step0, fits, storage, evalVars, parseVars, stepVars>>

\* the head of the for loop in fit, after one epoch's work is complete
NextEpochPc(done) == IF done = epochs THEN "done" ELSE "epoch"

\* self._ds is exhausted: _run_training_epoch returns, fit goes on to "if save"
EpochEnd ==
    /\ fitpc = "epoch"
    /\ b = Len(ds)
    /\ IF save
       THEN /\ calls' = Append(calls, "save")
            /\ fitpc' = "saving" /\ m' = 1
            /\ UNCHANGED <<e, b, seen>>
       ELSE \* "if evaluate: self.evaluate()" is commented out (generic.py:173-174)
            /\ e' = e + 1 /\ b' = 0 /\ seen' = {}
            /\ fitpc' = NextEpochPc(e + 1)
            /\ UNCHANGED <<calls, m>>
    /\ UNCHANGED <<trainerVars, configVars, step, epochs, save, evaluate, batch,
                   labels, step0, fits, storage, evalVars, parseVars, stepVars>>

\* faulty variant: the exception of model.save caught and dropped
AfterWrite_swallowed(ok, last) ==
    IF last THEN "next" ELSE "saving"

\* generic.py:185-187: a failing model.save raises out of save and out of fit
AfterWrite(ok, last) ==
    IF ~ok THEN "raised" ELSE IF last THEN "next" ELSE "saving"

\* one iteration of "for m in self._models" in save
SaveModel(ok) ==
    /\ fitpc = "saving"
    /\ LET name == ModelOrder[m]
           nxt == AfterWrite(ok, m = Len(ModelOrder))
       IN /\ storage' = IF ok THEN [storage EXCEPT ![name] = step] ELSE storage
          /\ IF nxt = "raised"
             THEN /\ fitpc' = "raised"
                  /\ UNCHANGED <<e, b, m, seen>>
             ELSE IF nxt = "saving"
             THEN /\ m' = m + 1
                  /\ UNCHANGED <<fitpc, e, b, seen>>
             ELSE /\ e' = e + 1 /\ b' = 0 /\ seen' = {} /\ m' = 1
                  /\ fitpc' = NextEpochPc(e + 1)
    /\ UNCHANGED <<trainerVars, configVars, step, epochs, save, evaluate, batch,
                   labels, calls, step0, fits, evalVars, parseVars, stepVars>>

(***************************************************************************)
(* SimCLRTrainer.evaluate and GenericExtractor._linear_classification_test *)
(***************************************************************************)
\* simclr.py:215-223: the hparams dict, or None
evaluate_hparams(has) ==
    IF ~has THEN [is_none     |-> FALSE,
                  temperature |-> config["temperature"],
                  num_hidden  |-> config["num_hidden"],
                  output_dim  |-> config["output_dim"]]
    ELSE [is_none |-> TRUE]

\* generic.py:218-226: whether this call registers the hyperparameters
registers(params, has) == ~params.is_none /\ ~has

\* faulty variant: the result of hp.hparams_config not kept on self
hparams_config_not_stored(params, has) == has

\* generic.py:221: self._hparams_config is set by the registering call
hparams_config_after(params, has) == has \/ registers(params, has)

Evaluate ==
    /\ trainer = "ok"
    /\ fitpc \in {"idle", "done", "raised"}
    /\ evals < MaxEvals
    /\ evals' = evals + 1
    /\ LET params == evaluate_hparams(has_hparams_config)
       IN /\ registrations' = registrations +
                                (IF registers(params, has_hparams_config) THEN 1 ELSE 0)
          /\ has_hparams_config' = hparams_config_after(params, has_hparams_config)
    /\ UNCHANGED <<trainerVars, configVars, step, fitVars, storage, parseVars, stepVars>>

Next ==
    \/ \E a \in AugmentValues, t \in Temperatures, n \in 1..MaxBatch, M \in 0..MaxImages :
          Construct(a, t, n, M)
    \/ \E E \in 0..MaxEpochs, s \in BOOLEAN, ev \in BOOLEAN : Fit(E, s, ev)
    \/ TrainStep
    \/ EpochEnd
    \/ \E ok \in BOOLEAN : SaveModel(ok)

Spec == Init /\ [][Next]_vars

(***************************************************************************)
(* SpecEval: a trainer on which the caller invokes evaluate().  evaluate   *)
(* reads self.config and self._hparams_config only, and fit never calls it *)
(* (generic.py:173-174), so it is explored apart from the fit loop.        *)
(***************************************************************************)
NextEval ==
    \/ \E a \in AugmentValues, t \in Temperatures, n \in 1..MaxBatch, M \in 0..MaxImages :
          Construct(a, t, n, M)
    \/ Evaluate

SpecEval == Init /\ [][NextEval]_vars


(***************************************************************************)
(* SpecStep: the logits of one training step (simclr.py:75-82).            *)
(* Embeddings are integer vectors; normalised embeddings and similarities  *)
(* are fixed-point numbers in units of 1/Unit.  A logit is the fraction    *)
(* num/den with num in units of 1/Unit and den the temperature in tenths.  *)
(***************************************************************************)
Unit == 10 * 10

\* what embed_model may return for one view: vectors of norm 5, and the zero vector
EmbedVectors == { <<5, 0>>, <<-5, 0>>, <<0, 5>>, <<3, 4>>, <<-4, -3>>, <<0, 0>> }

Dot(u, v) == u[1] * v[1] + u[2] * v[2]

\* the integer square root of a perfect square
Sqrt(n) == CHOOSE r \in 0..n : r * r = n

\* tf.nn.l2_normalize(v): v / sqrt(max(sum(v^2), epsilon)); the zero vector stays zero
l2_normalize(v) ==
    IF Dot(v, v) = 0 THEN <<0, 0>>
    ELSE << (v[1] * Unit) \div Sqrt(Dot(v, v)), (v[2] * Unit) \div Sqrt(Dot(v, v)) >>

\* tf.linalg.eye
eye(i, j) == IF i = j THEN 1 ELSE 0

\* tf.matmul(embeds_norm, embeds_norm, transpose_b=True)
similarity(en) ==
    [i \in 1..Len(en) |-> [j \in 1..Len(en) |-> Dot(en[i], en[j]) \div Unit]]

\* (sim - BIG_NUMBER*eye)/temperature
mask_and_scale(sm, t) ==
    [i \in 1..Len(sm) |-> [j \in 1..Len(sm) |->
        [num |-> sm[i][j] - BIG_NUMBER * Unit * eye(i, j), den |-> t]]]

InitStep ==
    /\ TrainerInit /\ ConfigInit /\ cpc = "off" /\ kwargs = <<>>
    /\ tpc = "start" /\ tau \in Temperatures
    /\ embeddings = <<>> /\ embeds_norm = <<>> /\ sim = <<>> /\ logits = <<>>

\* embeddings = embed_model(x, training=True) on a batch of 2N views
Forward(emb) ==
    /\ tpc = "start"
    /\ embeddings' = emb
    /\ tpc' = "embedded"
    /\ UNCHANGED <<tau, embeds_norm, sim, logits, trainerVars, configVars, step, fitVars, storage, evalVars, parseVars>>

Normalize ==
    /\ tpc = "embedded"
    /\ embeds_norm' = [i \in 1..Len(embeddings) |-> l2_normalize(embeddings[i])]
    /\ tpc' = "normalized"
    /\ UNCHANGED <<tau, embeddings, sim, logits, trainerVars, configVars, step, fitVars, storage, evalVars, parseVars>>

Similarity ==
    /\ tpc = "normalized"
    /\ sim' = similarity(embeds_norm)
    /\ tpc' = "sim"
    /\ UNCHANGED <<tau, embeddings, embeds_norm, logits, trainerVars, configVars, step, fitVars, storage, evalVars, parseVars>>

MaskAndScale ==
    /\ tpc = "sim"
    /\ logits' = mask_and_scale(sim, tau)
    /\ tpc' = "logits"
    /\ UNCHANGED <<tau, embeddings, embeds_norm, sim, trainerVars, configVars, step, fitVars, storage, evalVars, parseVars>>

NextStep ==
    \/ \E N \in 1..MaxBatch : \E emb \in [1..(2 * N) -> EmbedVectors] : Forward(emb)
    \/ Normalize
    \/ Similarity
    \/ MaskAndScale

SpecStep == InitStep /\ [][NextStep]_vars

(***************************************************************************)
(* SpecConfig: _parse_configs called with arbitrary keyword arguments      *)
(***************************************************************************)
ConfigKeys == {"augment", "imshape", "batch_size", "lr", "temperature", "notes"}

ValuesOf(k) == IF k = "augment" THEN {"True", "False"} ELSE {"v1", "v2"}

\* keyword arguments: distinct keys, in call order, each with a value
KwargSeqs ==
    UNION { { kw \in [1..n -> UNION {{<<k, v>> : v \in ValuesOf(k)} : k \in ConfigKeys}] :
                \A i, j \in 1..n : i # j => kw[i][1] # kw[j][1] }
            : n \in 0..MaxKwargs }

\* what an earlier _parse_configs call on the same object may have left behind
EarlierKwargs ==
    { <<>>,
      << <<"augment", "True">>, <<"lr", "v2">>, <<"imshape", "v2">> >>,
      << <<"notes", "v1">>, <<"batch_size", "v1">> >> }

InitConfig ==
    /\ TrainerInit /\ StepInit
    /\ cpc = "call"
    /\ kwargs \in KwargSeqs
    /\ \E earlier \in EarlierKwargs :
          /\ config = parse_configs(earlier).config
          /\ input_config = parse_configs(earlier).input
          /\ augment_config = parse_configs(earlier).augment

\* generic.py:129-149: self._parse_configs(**kwargs)
ParseConfigs ==
    /\ cpc = "call"
    /\ cpc' = "returned"
    /\ LET parsed == parse_configs(kwargs)
       IN /\ config' = parsed.config
          /\ input_config' = parsed.input
          /\ augment_config' = parsed.augment
    /\ UNCHANGED <<kwargs, trainerVars, step, fitVars, storage, evalVars, stepVars>>

NextConfig == ParseConfigs

SpecConfig == InitConfig /\ [][NextConfig]_vars


(***************************************************************************)
(* Properties                                                              *)
(***************************************************************************)
Count(x, seq) == Cardinality({i \in 1..Len(seq) : seq[i] = x})

\* a batch of 2n views in which positions 2k, 2k+1 (0-based) are the two views
\* of one image, labelled +1 and -1
PairedBatch(bt, n) ==
    /\ Len(bt) = 2 * n
    /\ \A k \in 0..(n - 1) :
          /\ bt[2 * k + 1].img = bt[2 * k + 2].img
          /\ bt[2 * k + 1].view # bt[2 * k + 2].view
          /\ bt[2 * k + 1].y = 1
          /\ bt[2 * k + 2].y = -1

\* C1: every batch of the dataset holds exactly 2N views, positions 2k and
\* 2k+1 hold the two views of one source image with labels +1 and -1, no
\* image appears in two batches, and the targets index + y the training step
\* computes point at each row's twin inside the batch, never at the row.
C1_PairsInOneBatch ==
    /\ \A k \in 1..Len(ds) : PairedBatch(ds[k], batch_size)
    /\ \A k1, k2 \in 1..Len(ds) :
          \A i \in 1..Len(ds[k1]), j \in 1..Len(ds[k2]) :
             ds[k1][i].img = ds[k2][j].img => k1 = k2
    /\ batch # <<>> =>
          /\ PairedBatch(batch, batch_size)
          /\ Len(labels) = 2 * batch_size
          /\ \A i \in 0..(2 * batch_size - 1) :
                /\ labels[i + 1] \in 0..(2 * batch_size - 1)
                /\ labels[i + 1] # i
                /\ batch[labels[i + 1] + 1].img = batch[i + 1].img
                /\ batch[labels[i + 1] + 1].view # batch[i + 1].view

C1_Witness ==
    /\ batch_size = 2 /\ Len(train_data) = 4 /\ b = 2
    /\ batch = ds[2]
    /\ labels = <<1, 0, 3, 2>>

\* the calls of a fit call that ran E epochs of B batches to the end
RECURSIVE ExpectedCalls(_, _, _)
ExpectedCalls(E, B, s) ==
    IF E = 0 THEN <<>>
    ELSE ExpectedCalls(E - 1, B, s) \o [i \in 1..B |-> "step"]
            \o (IF s THEN <<"save">> ELSE <<>>)

\* C2: a fit call with save=True that returns has called save exactly
\* `epochs` times, each right after that epoch's batches; self.step grows by
\* one with every batch and never decreases, across epochs and fit calls.
C2_SavePerEpochStepMonotonic ==
    /\ [](fitpc = "done" /\ save =>
             /\ Count("save", calls) = epochs
             /\ calls = ExpectedCalls(epochs, Len(ds), TRUE))
    /\ [][step' >= step]_vars
    /\ [][b' = b + 1 => step' = step + 1]_vars

C2_Witness ==
    /\ fitpc = "done" /\ save /\ epochs = 2 /\ fits = 2
    /\ step0 > 0 /\ step > step0
    /\ Count("save", calls) = 2

\* C3: for every temperature > 0, once the logits are computed every
\* diagonal logit lies at least ln(1e6) below every off-diagonal logit of its
\* row, and every off-diagonal logit is its similarity over the temperature.
\* (a logit is num/(10*den) in real terms; ln(1e6) = 13.8155...)
C3_DiagonalNegligible ==
    (tpc = "logits" /\ tau > 0) =>
        \A i \in 1..Len(logits) : \A j \in 1..Len(logits) :
            i # j =>
               /\ (logits[i][j].num - logits[i][i].num) * 1000 >= 138156 * logits[i][i].den
               /\ logits[i][j].num = sim[i][j]
               /\ logits[i][j].den = tau

\* C4: with augmentation disabled (False) or not configured (None, {}),
\* construction ends in an AssertionError, no dataset and no training step is
\* ever assigned and no batch is ever produced; _build_simclr_dataset itself
\* raises on every such value.
C4_NoAugmentationRaises ==
    /\ (trainer # "none" /\ ~Truthy(augment)) =>
          /\ trainer = "raised"
          /\ ~has_ds /\ ~has_training_step
          /\ ds = <<>> /\ batch = <<>> /\ calls = <<>> /\ step = 0
    /\ \A a \in AugmentValues : \A M \in 0..MaxImages : \A n \in 1..MaxBatch :
          ~Truthy(a) => build_simclr_dataset([i \in 1..M |-> i], n, a).raised

C4_Witness ==
    /\ trainer = "raised" /\ augment = "False" /\ raisedAt = "init"
    /\ ~has_ds /\ ~has_training_step

\* C5: with a temperature <= 0 no training step (forward pass, loss,
\* gradient update) is ever run.
C5_NonPositiveTemperatureNoStep ==
    (trainer # "none" /\ temperature <= 0) =>
        /\ batch = <<>>
        /\ Count("step", calls) = 0
        /\ step = 0

\* C6: a failing write during save ends the fit call in the raised state at
\* once, and from then on that fit call runs no epoch, training step or
\* write: only a new fit call changes the loop's state.
C6_SaveFailureSurfaced ==
    /\ [][SaveModel(FALSE) => fitpc' = "raised"]_vars
    /\ [][(fitpc = "raised" /\ fits' = fits) =>
             /\ fitpc' = "raised"
             /\ calls' = calls /\ step' = step /\ storage' = storage
             /\ e' = e /\ b' = b /\ m' = m]_vars

C6_Witness ==
    /\ fitpc = "raised" /\ epochs = 2 /\ e = 0 /\ m = 2
    /\ storage["fcn"] = step /\ storage["full"] = -1
    /\ calls = ExpectedCalls(1, Len(ds), TRUE)
    /\ Len(ds) > 0

\* C7: a fit call that returns has invoked the evaluator once per epoch when
\* evaluate is true, and never when it is false.
C7_EvaluateGated ==
    fitpc = "done" =>
        Count("evaluate", calls) = (IF evaluate THEN epochs ELSE 0)

\* C8: the hyperparameters are registered by the first evaluate() call and
\* by no later one: after any number of calls there is exactly one
\* registration, made during the first.
C8_RegisteredOnce ==
    /\ registrations = (IF evals >= 1 THEN 1 ELSE 0)
    /\ has_hparams_config = (evals >= 1)

C8_Witness == evals >= 2 /\ registrations = 1 /\ has_hparams_config

SuppliedKeys == {kwargs[i][1] : i \in 1..Len(kwargs)}
Supplied(k) == (CHOOSE i \in 1..Len(kwargs) : kwargs[i][1] = k)

\* C9: after _parse_configs(**kwargs) the input bucket holds exactly the
\* supplied keys of INPUT_PARAMS, the model bucket every other supplied key
\* but augment, each with the supplied value, the augment bucket is the value
\* of augment (False when absent); the buckets are disjoint and cover the
\* supplied keys, whatever an earlier call left behind.
C9_ThreeBuckets ==
    cpc = "returned" =>
    /\ DOMAIN input_config = SuppliedKeys \cap INPUT_PARAMS
    /\ DOMAIN config = SuppliedKeys \ (INPUT_PARAMS \cup {"augment"})
    /\ DOMAIN input_config \cap DOMAIN config = {}
    /\ "augment" \notin DOMAIN input_config \cup DOMAIN config
    /\ DOMAIN input_config \cup DOMAIN config \cup (SuppliedKeys \cap {"augment"})
          = SuppliedKeys
    /\ \A k \in DOMAIN input_config : input_config[k] = kwargs[Supplied(k)][2]
    /\ \A k \in DOMAIN config : config[k] = kwargs[Supplied(k)][2]
    /\ augment_config = (IF "augment" \in SuppliedKeys
                         THEN kwargs[Supplied("augment")][2] ELSE "False")

C9_Witness ==
    /\ cpc = "returned"
    /\ SuppliedKeys = {"imshape", "lr", "augment"}
    /\ DOMAIN input_config = {"imshape"}
    /\ DOMAIN config = {"lr"}
    /\ augment_config = "True"

\* C10: the dataset holds floor(M/N) batches, an epoch consumes the first
\* N*floor(M/N) images in order and never the trailing M mod N, and a fit
\* call that returns has advanced self.step by epochs*floor(M/N) (by nothing
\* when M < N) and, with save=True, has saved `epochs` times.
C10_FloorBatchesPerEpoch ==
    trainer = "ok" =>
        LET B == Len(train_data) \div batch_size
        IN /\ Len(ds) = B
           /\ b <= B
           /\ seen = 1..(batch_size * b)
           /\ fitpc = "saving" => seen = 1..(batch_size * B)
           /\ fitpc = "done" =>
                 /\ step = step0 + epochs * B
                 /\ Count("step", calls) = epochs * B
                 /\ save => Count("save", calls) = epochs
                 /\ Len(train_data) < batch_size => step = step0

C10_Witness ==
    /\ fitpc = "done" /\ Len(train_data) = 3 /\ batch_size = 2
    /\ epochs = 2 /\ save
    /\ step = step0 + 2
    /\ Count("save", calls) = 2

=============================================================================
